---- MODULE Spec2Model ----
(***************************************************************************)
(* A model of package dockerexec (src/dockerexec.go): one Cmd, the caller  *)
(* that drives it, the goroutines Start launches (stream pumps, the        *)
(* context watcher) and the container backend the Cmd talks to.            *)
(*                                                                         *)
(* A method that cannot block is one action.  Wait blocks twice, in the    *)
(* select over the backend's exit channels and in its loop of receives     *)
(* from errch, so it is cut there (pc = "wait_select", "wait_drain").      *)
(* Run, Output and CombinedOutput call Start and, if it succeeded, Wait:   *)
(* their Start part is one action and their Wait part is Wait's steps.     *)
(*                                                                         *)
(* The two helper types, prefixSuffixSaver and closeOnce, are followed on  *)
(* their own in HelpersSpec.                                               *)
(***************************************************************************)
EXTENDS Integers, Sequences, FiniteSets, TLC

\* ------------------------------------------------------------------ bounds

\* Number of times the caller calls Start (itself, or through Run, Output or
\* CombinedOutput) on a Cmd that is not started and has not both Tty and an
\* error sink: MaxStarts times when it gave the Cmd a context, MaxStartsNoCtx
\* times when it gave none, which is where calls that follow a failed Start are
\* followed.  Its calls of Start on any other Cmd are not bounded.
MaxStarts == 1
MaxStartsNoCtx == 2

\* prefixSuffixSaver: the largest capacity N, the longest argument of one Write
\* and the largest number of bytes written in all.
MaxN == 3
MaxWriteLen == 4
MaxTotal == 8

\* closeOnce: the number of Close calls, the caller's and the Cmd's together.
MaxCloses == 3

\* ------------------------------------------------------------- error values

NoErr == "nil"
ErrAlreadyStarted == "dockerexec: already started"
ErrTtyStderr == "dockerexec: can't set both Config.Tty and Stderr"
ErrNotStarted == "dockerexec: not started"
ErrWaitTwice == "dockerexec: Wait was already called"
ErrStdoutSet == "dockerexec: Stdout already set"
ErrStderrSet == "dockerexec: Stderr already set"
ErrStdinSet == "dockerexec: Stdin already set"
ErrStdinPipeStarted == "dockerexec: StdinPipe after container started"
ErrStdoutPipeStarted == "dockerexec: StdoutPipe after container started"
ErrStderrPipeSet == "exec: Stderr already set"
ErrStderrPipeStarted == "exec: StderrPipe after container started"
\* (*ExitError).Error(); the status travels in the value's StatusCode field
ErrExit == "exit status"
\* ctx.Err() of a done context
ErrCtx == "context canceled"
\* errors the backend client returns
ErrCreate == "create failed"
ErrAttach == "attach failed"
ErrStart == "start failed"
ErrWaitReg == "wait failed"
\* waitResult.Error.Message
ErrUnit == "unit error"
\* what a pump returns
ErrStdinCopy == "stdin copy error"
ErrCloseWrite == "close write error"
ErrOutputCopy == "output copy error"
ErrClosedPipe == "io: read/write on closed pipe"

\* The value a method returns: the error, and for an *ExitError its fields.
ErrVal(e) == [err |-> e, StatusCode |-> 0, Stderr |-> FALSE]
ExitError(status) == [err |-> ErrExit, StatusCode |-> status, Stderr |-> FALSE]

\* Exit statuses a unit ends with on its own, and the one SIGKILL gives it.
OwnStatuses == {0, 42}
KillStatus == {137}

Range(s) == {s[i] : i \in 1..Len(s)}

VARIABLES
    \* ---- the Cmd's fields
    Tty,              \* c.Config.Tty
    OpenStdin,        \* c.Config.OpenStdin
    Stdin,            \* "nil", "reader" (a caller's io.Reader), "pipe" (StdinPipe)
    Stdout,           \* "nil", "pipe" (StdoutPipe), "buffer" (Output's bytes.Buffer)
    Stderr,           \* "nil", "pipe", "saver" (prefixSuffixSaver), "buffer"
    ContainerID,      \* 0 is the empty string, n > 0 the ID of the n-th created unit
    StatusCode,
    hasCtx,           \* c.ctx != nil
    finished,
    closeAfterWait,
    closeAfterStdin,
    closeAfterOutput,
    goroutine,        \* the registered pumps: [kind, conn], conn the unit attached to
    errch,            \* the values in the channel
    errchCap,         \* its capacity; 0 while c.errch is nil
    waitReg,          \* the unit c.waitCh and c.waitErrCh were obtained for, 0 = nil
    waitCh,
    waitErrCh,
    waitDone,         \* "nil", "open", "closed"
    \* ---- the goroutines Start launched
    pump,             \* per entry of goroutine: "registered", "copying", "done"
    watcher,          \* "none", "waiting", "done"
    \* ---- the context and the pipe ends
    ctxDone,
    closedEnds,       \* the pipe ends on which Close was called
    \* ---- the backend
    units,            \* per created unit: "running", "exited", "removed"
    exitStatus,       \* the status the exited unit ended with
    waitYielded,      \* one of the two wait channels has yielded its value
    calls,            \* the number of calls of each backend operation
    openConns,        \* the units whose attached connection has not been closed
    unitOpenStdin,    \* per created unit: Config.OpenStdin as ContainerCreate got it
    \* ---- the caller
    pc,               \* "idle", "wait_select", "wait_drain", "panic"
    call,             \* the method the caller is inside of
    nStarts,
    lastOp,           \* the method that returned last
    ret,              \* what it returned
    captureErr,       \* Output's local
    wErr,             \* Wait's local err
    copyError,        \* Wait's local copyError
    \* ---- history
    waitReturned,     \* a Wait on the started Cmd has returned
    \* ---- a prefixSuffixSaver
    N,
    prefix,
    suffix,
    suffixOff,
    skipped,
    written,          \* history: every byte written to it, in order
    writeRet,         \* what the last Write returned
    \* ---- a closeOnce and the io.PipeWriter in it
    once,             \* c.once has run
    onceErr,          \* c.err
    pwCloses,         \* the number of calls of PipeWriter.Close
    closeRet,         \* what the last Close returned
    nCloses           \* the number of calls of Close

cmdVars == <<Tty, OpenStdin, Stdin, Stdout, Stderr, ContainerID, StatusCode, hasCtx,
             finished, closeAfterWait, closeAfterStdin, closeAfterOutput, goroutine,
             errch, errchCap, waitReg, waitCh, waitErrCh, waitDone>>
taskVars == <<pump, watcher>>
envVars == <<ctxDone, closedEnds>>
backendVars == <<units, exitStatus, waitYielded, calls, openConns, unitOpenStdin>>
callerVars == <<pc, call, nStarts, lastOp, ret, captureErr, wErr, copyError>>
histVars == <<waitReturned>>
saverVars == <<N, prefix, suffix, suffixOff, skipped, written, writeRet>>
onceVars == <<once, onceErr, pwCloses, closeRet, nCloses>>
helperVars == <<saverVars, onceVars>>
vars == <<cmdVars, taskVars, envVars, backendVars, callerVars, histVars, helperVars>>

\* Command and CommandContext: the Cmd as constructed.  The literal sets Config,
\* HostConfig and cli; every other field has Go's zero value, StatusCode included.
Command ==
    /\ Tty = FALSE
    /\ OpenStdin = FALSE
    /\ Stdin = "nil"
    /\ Stdout = "nil"
    /\ Stderr = "nil"
    /\ ContainerID = 0
    /\ StatusCode = 0
    /\ finished = FALSE
    /\ closeAfterWait = <<>>
    /\ closeAfterStdin = <<>>
    /\ closeAfterOutput = <<>>
    /\ goroutine = <<>>
    /\ errch = <<>>
    /\ errchCap = 0
    /\ waitReg = 0
    /\ waitCh = <<>>
    /\ waitErrCh = <<>>
    /\ waitDone = "nil"

\* &prefixSuffixSaver{N: n}
NewSaver(n) ==
    /\ N = n
    /\ prefix = <<>>
    /\ suffix = <<>>
    /\ suffixOff = 0
    /\ skipped = 0
    /\ written = <<>>
    /\ writeRet = [n |-> 0, err |-> NoErr]

\* &closeOnce{PipeWriter: pw}
NewCloseOnce ==
    /\ once = FALSE
    /\ onceErr = NoErr
    /\ pwCloses = 0
    /\ closeRet = NoErr
    /\ nCloses = 0

\* The Cmd as constructed, the caller about to use it, no goroutine launched
\* and nothing asked of the backend.
Constructed ==
    /\ Command
    /\ pump = <<>>
    /\ watcher = "none"
    /\ ctxDone = FALSE
    /\ closedEnds = {}
    /\ units = <<>>
    /\ exitStatus = 0
    /\ waitYielded = FALSE
    /\ calls = [create |-> 0, attach |-> 0, wait |-> 0, start |-> 0, kill |-> 0,
                remove |-> 0]
    /\ openConns = {}
    /\ unitOpenStdin = <<>>
    /\ pc = "idle"
    /\ call = "none"
    /\ nStarts = 0
    /\ lastOp = "none"
    /\ ret = ErrVal(NoErr)
    /\ captureErr = FALSE
    /\ wErr = NoErr
    /\ copyError = NoErr
    /\ waitReturned = FALSE

\* Spec follows the Cmd; the saver and the once-closer stay as constructed in
\* it and are followed on their own in HelpersSpec.
Init ==
    /\ Constructed
    /\ hasCtx \in BOOLEAN          \* CommandContext or Command
    /\ NewSaver(MaxN)
    /\ NewCloseOnce


\* ------------------------------------------------------------------ helpers

\* closeDescriptors(closers): Close is called on every closer of the group.
closeDescriptors(closers) == closedEnds \cup Range(closers)

\* A failure path that forgets the after-wait group.
closeAllButAfterWait ==
    closedEnds \cup Range(closeAfterStdin) \cup Range(closeAfterOutput)

\* The three groups Start closes on each of its failure paths.
closeAll ==
    closedEnds \cup Range(closeAfterStdin) \cup Range(closeAfterOutput)
        \cup Range(closeAfterWait)

\* A method returns e to the caller.
Return(method, e) ==
    /\ pc' = "idle"
    /\ call' = "none"
    /\ lastOp' = method
    /\ ret' = e

\* The caller is inside method, blocked in Wait's select; nothing has returned.
Enter(method) ==
    /\ pc' = "wait_select"
    /\ call' = method
    /\ lastOp' = "none"
    /\ ret' = ErrVal(NoErr)

\* The caller may call a method: it is inside none.
CanCall == pc = "idle"

\* ------------------------------------------- the caller sets the Cmd's fields

\* The caller prepares the Cmd before its first call of Start, Wait, Run,
\* Output or CombinedOutput: it assigns fields (cmd.Config.Tty = true,
\* cmd.Stdin = r) and calls the pipe methods.  The sinks it binds are those of
\* StdoutPipe and StderrPipe, or the buffers Output and CombinedOutput bind.
Preparing == pc = "idle" /\ lastOp \in {"none", "StdinPipe", "StdoutPipe", "StderrPipe"}

SetTty ==
    /\ Preparing /\ ~Tty
    /\ Tty' = TRUE
    /\ UNCHANGED <<OpenStdin, Stdin, Stdout, Stderr, ContainerID, StatusCode, hasCtx,
                   finished, closeAfterWait, closeAfterStdin, closeAfterOutput,
                   goroutine, errch, errchCap, waitReg, waitCh, waitErrCh, waitDone>>
    /\ UNCHANGED <<taskVars, envVars, backendVars, callerVars, histVars, helperVars>>

SetStdin ==
    /\ Preparing /\ Stdin = "nil"
    /\ Stdin' = "reader"
    /\ UNCHANGED <<Tty, OpenStdin, Stdout, Stderr, ContainerID, StatusCode, hasCtx,
                   finished, closeAfterWait, closeAfterStdin, closeAfterOutput,
                   goroutine, errch, errchCap, waitReg, waitCh, waitErrCh, waitDone>>
    /\ UNCHANGED <<taskVars, envVars, backendVars, callerVars, histVars, helperVars>>

\* ------------------------------------------------------------ the pipe methods

StdinPipe ==
    /\ Preparing
    /\ LET e == IF Stdin # "nil" THEN ErrStdinSet
                ELSE IF ContainerID # 0 THEN ErrStdinPipeStarted
                ELSE NoErr
       IN /\ ret' = ErrVal(e)
          /\ lastOp' = "StdinPipe"
          /\ Stdin' = IF e = NoErr THEN "pipe" ELSE Stdin
          /\ closeAfterStdin' = IF e = NoErr THEN Append(closeAfterStdin, "stdin_pr")
                                ELSE closeAfterStdin
          /\ closeAfterWait' = IF e = NoErr THEN Append(closeAfterWait, "stdin_wc")
                               ELSE closeAfterWait
    /\ UNCHANGED <<Tty, OpenStdin, Stdout, Stderr, ContainerID, StatusCode, hasCtx,
                   finished, closeAfterOutput, goroutine, errch, errchCap, waitReg,
                   waitCh, waitErrCh, waitDone>>
    /\ UNCHANGED <<pc, call, nStarts, captureErr, wErr, copyError>>
    /\ UNCHANGED <<taskVars, envVars, backendVars, histVars, helperVars>>

StdoutPipe ==
    /\ Preparing
    /\ LET e == IF Stdout # "nil" THEN ErrStdoutSet
                ELSE IF ContainerID # 0 THEN ErrStdoutPipeStarted
                ELSE NoErr
       IN /\ ret' = ErrVal(e)
          /\ lastOp' = "StdoutPipe"
          /\ Stdout' = IF e = NoErr THEN "pipe" ELSE Stdout
          /\ closeAfterOutput' = IF e = NoErr THEN Append(closeAfterOutput, "stdout_pw")
                                 ELSE closeAfterOutput
          /\ closeAfterWait' = IF e = NoErr THEN Append(closeAfterWait, "stdout_pr")
                               ELSE closeAfterWait
    /\ UNCHANGED <<Tty, OpenStdin, Stdin, Stderr, ContainerID, StatusCode, hasCtx,
                   finished, closeAfterStdin, goroutine, errch, errchCap, waitReg,
                   waitCh, waitErrCh, waitDone>>
    /\ UNCHANGED <<pc, call, nStarts, captureErr, wErr, copyError>>
    /\ UNCHANGED <<taskVars, envVars, backendVars, histVars, helperVars>>

StderrPipe ==
    /\ Preparing
    /\ LET e == IF Stderr # "nil" THEN ErrStderrPipeSet
                ELSE IF ContainerID # 0 THEN ErrStderrPipeStarted
                ELSE NoErr
       IN /\ ret' = ErrVal(e)
          /\ lastOp' = "StderrPipe"
          /\ Stderr' = IF e = NoErr THEN "pipe" ELSE Stderr
          /\ closeAfterOutput' = IF e = NoErr THEN Append(closeAfterOutput, "stderr_pw")
                                 ELSE closeAfterOutput
          /\ closeAfterWait' = IF e = NoErr THEN Append(closeAfterWait, "stderr_pr")
                               ELSE closeAfterWait
    /\ UNCHANGED <<Tty, OpenStdin, Stdin, Stdout, ContainerID, StatusCode, hasCtx,
                   finished, closeAfterStdin, goroutine, errch, errchCap, waitReg,
                   waitCh, waitErrCh, waitDone>>
    /\ UNCHANGED <<pc, call, nStarts, captureErr, wErr, copyError>>
    /\ UNCHANGED <<taskVars, envVars, backendVars, histVars, helperVars>>


\* ------------------------------------------------------------------- Start

\* A first check that never fires.
AlreadyStartedIgnored == FALSE

\* Start's first check: len(c.ContainerID) != 0.
AlreadyStarted == ContainerID # 0

\* Start's second check, on the error sink se the Cmd has when Start runs.
TtyConflict(se) == Tty /\ se # "nil"

\* Start without its look at the context.
StartOutcomesNoCtxCheck(se) ==
    IF AlreadyStarted THEN {"already"}
    ELSE IF TtyConflict(se) THEN {"tty"}
    ELSE {"create_fail", "attach_fail", "start_fail", "ok"}

\* The ways one call of Start can go.  "already", "tty" and "ctx" are Start's
\* own early returns, in the order of the code; past them the backend decides:
\* ContainerCreate, ContainerAttach or ContainerStart fails, or all succeed.
StartOutcomes(se) ==
    IF AlreadyStarted THEN {"already"}
    ELSE IF TtyConflict(se) THEN {"tty"}
    ELSE IF hasCtx /\ ctxDone THEN {"ctx"}
    ELSE {"create_fail", "attach_fail", "start_fail", "ok"}

StartError(o) ==
    CASE o = "already" -> ErrAlreadyStarted
      [] o = "tty" -> ErrTtyStderr
      [] o = "ctx" -> ErrCtx
      [] o = "create_fail" -> ErrCreate
      [] o = "attach_fail" -> ErrAttach
      [] o = "start_fail" -> ErrStart
      [] o = "ok" -> NoErr

\* The body of Start, called by method ("Start", "Run", "Output" or
\* "CombinedOutput") on a Cmd whose sinks are so and se; cap is Output's
\* captureErr.  When Start succeeds inside Run, Run goes on into Wait, whose
\* two checks are made here and which then blocks in its select.
StartBody(method, so, se, cap) ==
    \E o \in StartOutcomes(se) :
        LET created == o \in {"attach_fail", "start_fail", "ok"}
            attached == o \in {"start_fail", "ok"}
            failed == o \in {"ctx", "create_fail", "attach_fail", "start_fail"}
            u == Len(units) + 1
            \* c.stdin(attach) and c.stdoutStderr(attach) register the pumps
            g1 == IF attached /\ Stdin # "nil"
                  THEN Append(goroutine, [kind |-> "stdin", conn |-> u])
                  ELSE goroutine
            g2 == IF attached /\ (so # "nil" \/ se # "nil")
                  THEN Append(g1, [kind |-> "output", conn |-> u])
                  ELSE g1
        IN
        /\ \/ ContainerID # 0
           \/ Tty /\ se # "nil"
           \/ nStarts < (IF hasCtx THEN MaxStarts ELSE MaxStartsNoCtx)
        /\ Stdout' = so
        /\ Stderr' = se
        /\ OpenStdin' = (OpenStdin \/ (attached /\ Stdin # "nil"))
        /\ ContainerID' = IF o = "ok" THEN u ELSE ContainerID
        /\ goroutine' = g2
        /\ errchCap' = IF o = "ok" /\ Len(g2) > 0 THEN Len(g2) ELSE errchCap
        /\ errch' = IF o = "ok" /\ Len(g2) > 0 THEN <<>> ELSE errch
        /\ waitReg' = IF attached THEN u ELSE waitReg
        /\ waitCh' = IF attached THEN <<>> ELSE waitCh
        /\ waitErrCh' = IF attached THEN <<>> ELSE waitErrCh
        /\ waitYielded' = IF attached THEN FALSE ELSE waitYielded
        /\ waitDone' = IF o = "ok" /\ hasCtx THEN "open" ELSE waitDone
        /\ pump' = IF o = "ok" THEN [i \in 1..Len(g2) |-> "copying"]
                   ELSE pump \o [i \in 1..(Len(g2) - Len(goroutine)) |-> "registered"]
        /\ watcher' = IF o = "ok" /\ hasCtx THEN "waiting" ELSE watcher
        /\ closedEnds' = IF failed THEN closeAll ELSE closedEnds
        /\ units' = IF created
                    THEN Append(units, IF o = "ok" THEN "running" ELSE "removed")
                    ELSE units
        /\ calls' = [create |-> calls.create
                                  + (IF created \/ o = "create_fail" THEN 1 ELSE 0),
                     attach |-> calls.attach + (IF created THEN 1 ELSE 0),
                     wait |-> calls.wait + (IF attached THEN 1 ELSE 0),
                     start |-> calls.start + (IF attached THEN 1 ELSE 0),
                     kill |-> calls.kill,
                     remove |-> calls.remove
                                  + (IF o \in {"attach_fail", "start_fail"} THEN 1 ELSE 0)]
        \* ContainerCreate is given c.Config as it is at line 232; the attached
        \* connection is closed nowhere, on no path
        /\ unitOpenStdin' = IF created THEN Append(unitOpenStdin, OpenStdin)
                            ELSE unitOpenStdin
        /\ openConns' = IF attached THEN openConns \cup {u} ELSE openConns
        /\ IF o = "ok" /\ method # "Start"
           THEN IF finished
                THEN Return(method, ErrVal(ErrWaitTwice))
                ELSE Enter(method)
           ELSE Return(method, ErrVal(StartError(o)))
        /\ nStarts' = IF ContainerID # 0 \/ (Tty /\ se # "nil") THEN nStarts
                      ELSE nStarts + 1
        /\ captureErr' = cap
        /\ wErr' = NoErr
        /\ copyError' = NoErr
        /\ UNCHANGED <<Tty, Stdin, StatusCode, hasCtx, finished, closeAfterWait,
                       closeAfterStdin, closeAfterOutput>>
        /\ UNCHANGED <<ctxDone, exitStatus, histVars, helperVars>>

Start == CanCall /\ StartBody("Start", Stdout, Stderr, captureErr)

\* Run, Output and CombinedOutput begin with Start (Output and CombinedOutput
\* after their own checks); the caller calls them on a Cmd it has not started,
\* and calls Start itself when it starts a Cmd twice.
Run == CanCall /\ ~AlreadyStarted /\ StartBody("Run", Stdout, Stderr, captureErr)

\* A method that is rejected before it touches the Cmd.
Reject(method, e) ==
    /\ Return(method, ErrVal(e))
    /\ UNCHANGED <<nStarts, captureErr, wErr, copyError>>
    /\ UNCHANGED <<cmdVars, taskVars, envVars, backendVars, histVars, helperVars>>

\* A captureErr that is set whatever c.Stderr is.
CaptureErrAlways == TRUE

\* Output's captureErr := c.Stderr == nil
CaptureErr == Stderr = "nil"

Output ==
    /\ CanCall /\ ~AlreadyStarted
    /\ IF Stdout # "nil"
       THEN Reject("Output", ErrStdoutSet)
       ELSE StartBody("Output", "buffer", IF CaptureErr THEN "saver" ELSE Stderr,
                      CaptureErr)

CombinedOutput ==
    /\ CanCall /\ ~AlreadyStarted
    /\ IF Stdout # "nil"
       THEN Reject("CombinedOutput", ErrStdoutSet)
       ELSE IF Stderr # "nil"
       THEN Reject("CombinedOutput", ErrStderrSet)
       ELSE StartBody("CombinedOutput", "buffer", "buffer", captureErr)


\* -------------------------------------------------------------------- Wait

\* A first check that never fires.
NotStartedIgnored == FALSE

\* Wait's first check: len(c.ContainerID) == 0.
NotStarted == ContainerID = 0

\* A classification that looks at the status before the error.
ClassifyStatusFirst(err, status, cpErr) ==
    IF status # 0 THEN ExitError(status)
    ELSE IF err # NoErr THEN ErrVal(err)
    ELSE ErrVal(cpErr)

\* Wait's final classification of err, c.StatusCode and copyError.
Classify(err, status, cpErr) ==
    IF err # NoErr THEN ErrVal(err)
    ELSE IF status # 0 THEN ExitError(status)
    ELSE ErrVal(cpErr)

\* Output, after Run: the excerpt is attached to an *ExitError when captureErr.
AttachStderr(method, r) ==
    IF method = "Output" /\ r.err # NoErr /\ captureErr /\ r.err = ErrExit
    THEN [r EXCEPT !.Stderr = TRUE]
    ELSE r

\* Wait past its drain loop: the after-wait group is closed and the outcome
\* returned, through Run and Output when Wait was called by them.
WaitTail(err, status, cpErr) ==
    /\ closedEnds' = closeDescriptors(closeAfterWait)
    /\ Return(call, AttachStderr(call, Classify(err, status, cpErr)))
    /\ waitReturned' = TRUE
    /\ UNCHANGED helperVars

\* The caller calls Wait: the two checks, then the select.
Wait ==
    /\ CanCall
    /\ IF NotStarted THEN Return("Wait", ErrVal(ErrNotStarted))
       ELSE IF finished THEN Return("Wait", ErrVal(ErrWaitTwice))
       ELSE Enter("Wait")
    /\ wErr' = NoErr
    /\ copyError' = NoErr
    /\ UNCHANGED <<nStarts, captureErr>>
    /\ UNCHANGED <<cmdVars, taskVars, envVars, backendVars, histVars, helperVars>>

\* Wait past its select, which yielded err and the status now in c.StatusCode:
\* close(c.waitDone), which panics on a closed channel, then the drain loop,
\* which is skipped when no pump is registered.
WaitSelected(err, status) ==
    /\ StatusCode' = status
    /\ wErr' = err
    /\ waitDone' = IF waitDone = "open" THEN "closed" ELSE waitDone
    /\ IF waitDone = "closed"
       THEN /\ pc' = "panic"
            /\ UNCHANGED <<call, lastOp, ret, closedEnds, waitReturned, helperVars>>
       ELSE IF Len(goroutine) = 0
       THEN WaitTail(err, status, NoErr)
       ELSE /\ pc' = "wait_drain"
            /\ UNCHANGED <<call, lastOp, ret, closedEnds, waitReturned, helperVars>>
    /\ UNCHANGED <<nStarts, captureErr, copyError>>
    /\ UNCHANGED <<Tty, OpenStdin, Stdin, Stdout, Stderr, ContainerID, hasCtx, finished,
                   closeAfterWait, closeAfterStdin, closeAfterOutput, goroutine, errch,
                   errchCap, waitReg>>
    /\ UNCHANGED <<taskVars, ctxDone, backendVars>>

\* case waitResult := <-c.waitCh
WaitRecvResult ==
    /\ pc = "wait_select"
    /\ waitCh # <<>>
    /\ waitCh' = Tail(waitCh)
    /\ UNCHANGED waitErrCh
    /\ WaitSelected(IF Head(waitCh).Error THEN ErrUnit ELSE NoErr,
                    Head(waitCh).StatusCode)

\* case err = <-c.waitErrCh
WaitRecvErr ==
    /\ pc = "wait_select"
    /\ waitErrCh # <<>>
    /\ waitErrCh' = Tail(waitErrCh)
    /\ UNCHANGED waitCh
    /\ WaitSelected(Head(waitErrCh), StatusCode)

\* The drain loop: one receive from c.errch per registered pump, the first
\* non-nil value kept.  The channel's capacity is the number of launched pumps,
\* so no sender waits for a receive and nothing else reads the loop's locals:
\* the loop is taken as one step, enabled once its last value has been sent,
\* and then Wait runs to its return.
RECURSIVE FirstNonNil(_)
FirstNonNil(vals) ==
    IF vals = <<>> THEN NoErr
    ELSE IF Head(vals) # NoErr THEN Head(vals)
    ELSE FirstNonNil(Tail(vals))

WaitDrain ==
    /\ pc = "wait_drain"
    /\ Len(errch) >= Len(goroutine)
    /\ LET got == SubSeq(errch, 1, Len(goroutine))
       IN /\ errch' = SubSeq(errch, Len(goroutine) + 1, Len(errch))
          /\ copyError' = FirstNonNil(got)
          /\ WaitTail(wErr, StatusCode, FirstNonNil(got))
    /\ UNCHANGED <<nStarts, captureErr, wErr>>
    /\ UNCHANGED <<Tty, OpenStdin, Stdin, Stdout, Stderr, ContainerID, StatusCode, hasCtx,
                   finished, closeAfterWait, closeAfterStdin, closeAfterOutput, goroutine,
                   errchCap, waitReg, waitCh, waitErrCh, waitDone>>
    /\ UNCHANGED <<taskVars, ctxDone, backendVars>>

\* ---------------------------------------------------------------- the pumps

Pumps == 1..Len(goroutine)

\* What the stdin pump's copy can end with now.  io.Copy reads c.Stdin until
\* EOF or an error, then attach.CloseWrite() is called and its error returned
\* if the copy had none.  A caller's reader can end or fail at any time (the
\* failing CloseWrite is drawn with the pipe); the read half of an io.Pipe
\* yields ErrClosedPipe once it is closed, EOF once the write half is closed,
\* and blocks otherwise.
StdinResults ==
    CASE Stdin = "reader" -> {NoErr, ErrStdinCopy}
      [] Stdin = "pipe" ->
            IF "stdin_pr" \in closedEnds THEN {ErrClosedPipe}
            ELSE IF "stdin_wc" \in closedEnds THEN {NoErr, ErrCloseWrite}
            ELSE {}
      [] OTHER -> {}

\* A pump whose goroutine drops the value its function returned.
PumpEndsNoSend(i, r, group) ==
    /\ pump' = [pump EXCEPT ![i] = "done"]
    /\ closedEnds' = closeDescriptors(group)
    /\ UNCHANGED <<Tty, OpenStdin, Stdin, Stdout, Stderr, ContainerID, StatusCode, hasCtx,
                   finished, closeAfterWait, closeAfterStdin, closeAfterOutput, goroutine,
                   errch, errchCap, waitReg, waitCh, waitErrCh, waitDone>>

\* A pump's function returns r: its group of closers is closed, and the
\* goroutine sends r to c.errch, whose capacity is the number of pumps.
PumpEnds(i, r, group) ==
    /\ pump' = [pump EXCEPT ![i] = "done"]
    /\ closedEnds' = closeDescriptors(group)
    /\ errch' = Append(errch, r)
    /\ UNCHANGED <<Tty, OpenStdin, Stdin, Stdout, Stderr, ContainerID, StatusCode, hasCtx,
                   finished, closeAfterWait, closeAfterStdin, closeAfterOutput, goroutine,
                   errchCap, waitReg, waitCh, waitErrCh, waitDone>>

PumpReturns(i, r, group) ==
    /\ PumpEnds(i, r, group)
    /\ UNCHANGED <<watcher, ctxDone, backendVars, callerVars, histVars, helperVars>>

\* Pumps of one kind whose copies read the same thing are interchangeable:
\* all stdin pumps read c.Stdin, and the output pumps of removed units read a
\* stream that has ended.  Of the interchangeable pumps that are copying, the
\* lowest-numbered is taken as the next to end.
Alike(i, j) ==
    /\ goroutine[i].kind = goroutine[j].kind
    /\ \/ goroutine[i].kind = "stdin"
       \/ goroutine[i].conn # ContainerID /\ goroutine[j].conn # ContainerID

NextToEnd(i) ==
    /\ pump[i] = "copying"
    /\ \A j \in 1..(i - 1) : ~(Alike(i, j) /\ pump[j] = "copying")

PumpStdinFinish ==
    \E i \in Pumps : \E r \in StdinResults :
        /\ goroutine[i].kind = "stdin"
        /\ NextToEnd(i)
        /\ Len(errch) < errchCap
        /\ PumpReturns(i, r, closeAfterStdin)

\* An output pump that closes the after-wait group when its copy ends.
PumpOutputFinishClosesAfterWait ==
    \E i \in Pumps : \E r \in {NoErr, ErrOutputCopy} :
        /\ goroutine[i].kind = "output"
        /\ NextToEnd(i)
        /\ r = NoErr => units[goroutine[i].conn] \in {"exited", "removed"}
        /\ Len(errch) < errchCap
        /\ PumpReturns(i, r, closeAfterWait)

\* The output pump: io.Copy or stdcopy.StdCopy from attach.Reader, which
\* reaches EOF once the unit is gone, or fails on a read or a write error.
PumpOutputFinish ==
    \E i \in Pumps : \E r \in {NoErr, ErrOutputCopy} :
        /\ goroutine[i].kind = "output"
        /\ NextToEnd(i)
        /\ r = NoErr => units[goroutine[i].conn] \in {"exited", "removed"}
        /\ Len(errch) < errchCap
        /\ PumpReturns(i, r, closeAfterOutput)

\* -------------------------------------------- the caller's end of StdinPipe

\* A Write on the pipe's write half completes when a copying pump's Read
\* takes the chunk; the pump then writes it to the attached connection, and
\* its copy goes on if that write succeeds and ends with the error if not.
CallerWriteStdin ==
    /\ Stdin = "pipe"
    /\ "stdin_wc" \notin closedEnds
    /\ "stdin_pr" \notin closedEnds
    /\ UNCHANGED <<histVars, helperVars>>
    /\ \E i \in Pumps : \E ok \in BOOLEAN :
        /\ goroutine[i].kind = "stdin"
        /\ NextToEnd(i)
        /\ IF ok
           THEN UNCHANGED <<cmdVars, taskVars, envVars, backendVars, callerVars>>
           ELSE /\ Len(errch) < errchCap
                /\ PumpEnds(i, ErrStdinCopy, closeAfterStdin)
                /\ UNCHANGED <<watcher, ctxDone, backendVars, callerVars>>

\* The caller closes the writer StdinPipe returned.
CallerCloseStdin ==
    /\ Stdin = "pipe"
    /\ "stdin_wc" \notin closedEnds
    /\ closedEnds' = closedEnds \cup {"stdin_wc"}
    /\ UNCHANGED <<cmdVars, taskVars, ctxDone, backendVars, callerVars, histVars, helperVars>>

\* ------------------------------------------------- the context, the watcher

\* The caller's context becomes done (cancel, or its deadline).
Cancel ==
    /\ hasCtx
    /\ ~ctxDone
    /\ ctxDone' = TRUE
    /\ UNCHANGED <<cmdVars, taskVars, closedEnds, backendVars, callerVars, histVars, helperVars>>

\* A watcher that goes back to its select after the kill.
WatcherKillLoops ==
    /\ watcher = "waiting"
    /\ ctxDone
    /\ watcher' = "waiting"
    /\ calls' = [calls EXCEPT !.kill = @ + 1]
    /\ UNCHANGED <<cmdVars, pump, envVars, units, exitStatus, waitYielded, openConns,
                   unitOpenStdin, callerVars, histVars, helperVars>>

\* case <-c.ctx.Done(): ContainerKill, its error ignored.
WatcherKill ==
    /\ watcher = "waiting"
    /\ ctxDone
    /\ watcher' = "done"
    /\ calls' = [calls EXCEPT !.kill = @ + 1]
    /\ UNCHANGED <<cmdVars, pump, envVars, units, exitStatus, waitYielded, openConns,
                   unitOpenStdin, callerVars, histVars, helperVars>>

\* case <-c.waitDone
WatcherStop ==
    /\ watcher = "waiting"
    /\ waitDone = "closed"
    /\ watcher' = "done"
    /\ UNCHANGED <<cmdVars, pump, envVars, backendVars, callerVars, histVars, helperVars>>

\* -------------------------------------------------------------- the backend

\* Whether the exit notification of a unit that ended with status s carries
\* an error message: one that ended on its own with a non-zero status may.
UnitErrors(s) == IF s \in OwnStatuses \ {0} THEN BOOLEAN ELSE {FALSE}

\* The unit ends with status s.  ContainerWait's result channel then yields
\* the exit notification, with or without a unit-level error message, unless
\* the error channel has yielded already.
UnitEnds(s) ==
    /\ ContainerID # 0
    /\ units[ContainerID] = "running"
    /\ units' = [units EXCEPT ![ContainerID] = "exited"]
    /\ exitStatus' = s
    /\ IF waitYielded
       THEN UNCHANGED <<waitCh, waitYielded>>
       ELSE /\ \E m \in UnitErrors(s) : waitCh' = <<[StatusCode |-> s, Error |-> m]>>
            /\ waitYielded' = TRUE
    /\ UNCHANGED <<Tty, OpenStdin, Stdin, Stdout, Stderr, ContainerID, StatusCode, hasCtx,
                   finished, closeAfterWait, closeAfterStdin, closeAfterOutput, goroutine,
                   errch, errchCap, waitReg, waitErrCh, waitDone>>
    /\ UNCHANGED <<taskVars, envVars, calls, openConns, unitOpenStdin, callerVars,
                   histVars, helperVars>>

\* The started unit ends on its own.
UnitExit == \E s \in OwnStatuses : UnitEnds(s)

\* The started unit is ended by the kill the watcher requested.
UnitKilled == \E s \in KillStatus : calls.kill > 0 /\ UnitEnds(s)

\* ContainerWait's error channel yields: the request failed, or the
\* context it was made with (Start passes c.ctx) is done.
WaitErrors == {ErrWaitReg} \cup (IF hasCtx /\ ctxDone THEN {ErrCtx} ELSE {})

WaitRegError ==
    \E e \in WaitErrors :
        /\ ContainerID # 0
        /\ waitReg = ContainerID
        /\ ~waitYielded
        /\ waitErrCh' = <<e>>
        /\ waitYielded' = TRUE
        /\ UNCHANGED <<Tty, OpenStdin, Stdin, Stdout, Stderr, ContainerID, StatusCode,
                       hasCtx, finished, closeAfterWait, closeAfterStdin,
                       closeAfterOutput, goroutine, errch, errchCap, waitReg, waitCh,
                       waitDone>>
        /\ UNCHANGED <<taskVars, envVars, units, exitStatus, calls, openConns,
                       unitOpenStdin, callerVars, histVars, helperVars>>

\* ------------------------------------------------------- prefixSuffixSaver

\* The bytes a Write can carry: every sequence of up to MaxWriteLen bytes.
ByteValues == {"a", "b"}
Chunks == UNION {[1..k -> ByteValues] : k \in 0..MaxWriteLen}

minInt(a, b) == IF a < b THEN a ELSE b

\* A fill that lets dst grow past N.
fillUnbounded(dst, p) == [dst |-> dst \o p, p |-> <<>>]

\* fill appends to dst up to len(p) bytes of p, dst not growing beyond N, and
\* returns the rest of p.
fill(dst, p) ==
    LET remain == N - Len(dst)
        add == minInt(Len(p), remain)
    IN IF remain > 0
       THEN [dst |-> dst \o SubSeq(p, 1, add), p |-> SubSeq(p, add + 1, Len(p))]
       ELSE [dst |-> dst, p |-> p]

\* Write's loop over the full suffix: copy(w.suffix[w.suffixOff:], p) writes
\* n bytes at the offset, which wraps to 0 at N.
RECURSIVE Overwrite(_, _, _, _)
Overwrite(suf, off, skip, p) ==
    IF Len(p) = 0 THEN [suffix |-> suf, suffixOff |-> off, skipped |-> skip]
    ELSE LET n == minInt(Len(suf) - off, Len(p))
             copied == [i \in 1..Len(suf) |->
                           IF off < i /\ i <= off + n THEN p[i - off] ELSE suf[i]]
         IN Overwrite(copied, IF off + n = N THEN 0 ELSE off + n, skip + n,
                      SubSeq(p, n + 1, Len(p)))

\* (*prefixSuffixSaver).Write(p)
Write ==
    \E p \in Chunks :
        /\ Len(written) + Len(p) <= MaxTotal
        /\ LET toPrefix == fill(prefix, p)
               overage == Len(toPrefix.p) - N
               kept == IF overage > 0
                       THEN SubSeq(toPrefix.p, overage + 1, Len(toPrefix.p))
                       ELSE toPrefix.p
               toSuffix == fill(suffix, kept)
               looped == Overwrite(toSuffix.dst, suffixOff,
                                   IF overage > 0 THEN skipped + overage ELSE skipped,
                                   toSuffix.p)
           IN /\ prefix' = toPrefix.dst
              /\ suffix' = looped.suffix
              /\ suffixOff' = looped.suffixOff
              /\ skipped' = looped.skipped
              /\ writeRet' = [n |-> Len(p), err |-> NoErr]
        /\ written' = written \o p
        /\ UNCHANGED <<N, onceVars>>
        /\ UNCHANGED <<cmdVars, taskVars, envVars, backendVars, callerVars, histVars>>

\* The marker Bytes puts between prefix and suffix.
Marker(k) == <<"\n... omitting ", ToString(k), " bytes ...\n">>

\* A Bytes that writes the ring buffer as it lies.
BytesNoUnroll ==
    IF suffix = <<>> THEN prefix
    ELSE IF skipped = 0 THEN prefix \o suffix
    ELSE prefix \o Marker(skipped) \o suffix

\* (*prefixSuffixSaver).Bytes()
Bytes ==
    IF suffix = <<>> THEN prefix
    ELSE IF skipped = 0 THEN prefix \o suffix
    ELSE prefix \o Marker(skipped)
             \o SubSeq(suffix, suffixOff + 1, Len(suffix))
             \o SubSeq(suffix, 1, suffixOff)

\* ---------------------------------------------------------------- closeOnce

\* What (*io.PipeWriter).Close can return.
PipeCloseResults == {NoErr, ErrClosedPipe}

\* A once that runs its function on every call.
OnceRunsAlways == TRUE

\* c.once.Do(f) runs f if no call of Do has run it.
OnceRuns == ~once

\* (*closeOnce).Close(), called by the caller on the writer StdinPipe
\* returned or by closeDescriptors on the after-wait group: c.once.Do(c.close),
\* where close is c.err = c.PipeWriter.Close(), and then return c.err.
Close ==
    /\ nCloses < MaxCloses
    /\ nCloses' = nCloses + 1
    /\ IF OnceRuns
       THEN \E r \in PipeCloseResults :
               /\ onceErr' = r
               /\ closeRet' = r
               /\ pwCloses' = pwCloses + 1
       ELSE /\ closeRet' = onceErr
            /\ UNCHANGED <<onceErr, pwCloses>>
    /\ once' = TRUE
    /\ UNCHANGED saverVars
    /\ UNCHANGED <<cmdVars, taskVars, envVars, backendVars, callerVars, histVars>>

\* ------------------------------------------------------- the specification

Next ==
    \/ SetTty \/ SetStdin
    \/ StdinPipe \/ StdoutPipe \/ StderrPipe
    \/ Start \/ Run \/ Output \/ CombinedOutput
    \/ Wait \/ WaitRecvResult \/ WaitRecvErr \/ WaitDrain
    \/ PumpStdinFinish \/ PumpOutputFinish
    \/ CallerWriteStdin \/ CallerCloseStdin
    \/ Cancel \/ WatcherKill \/ WatcherStop
    \/ UnitExit \/ UnitKilled \/ WaitRegError

Spec == Init /\ [][Next]_vars

\* The two helper types on their own, beside a Cmd that is left as constructed.
HelpersInit ==
    /\ Constructed
    /\ hasCtx = FALSE
    /\ \E n \in 1..MaxN : NewSaver(n)
    /\ NewCloseOnce

HelpersNext == Write \/ Close

HelpersSpec == HelpersInit /\ [][HelpersNext]_vars

\* ================================================================ the claims

\* The methods through which a Wait returns to the caller.
WaitMethods == {"Wait", "Run", "Output", "CombinedOutput"}

\* C1: once a Wait on the started Cmd has returned, a later Wait returns the
\* misuse error at once; the caller is never again blocked inside Wait, in
\* its select or in its drain loop.
C1_NoWaitAfterWaitReturned == waitReturned => pc = "idle"

\* C2: a Cmd on which no Start has succeeded, so for which no Wait can have
\* received an exit notification, has StatusCode -1.
C2_StatusCodeNotRun == ContainerID = 0 => StatusCode = -1

\* C3: when a Wait on the started Cmd returns, it returns the unit-level or
\* registration error if there is one; otherwise an ExitError carrying exactly
\* the recorded status if that is non-zero, whatever the pumps sent; otherwise
\* the first non-nil value among those the pumps sent, in the order they are
\* received, or nil if all are nil.  So it returns nil only if there is no
\* error, the status is 0 and every pump sent nil.
C3_WaitClassification ==
    [][(pc \in {"wait_select", "wait_drain"} /\ pc' = "idle") =>
        LET sent == SubSeq(errch, 1, Len(goroutine))
            nonNil == {i \in 1..Len(sent) : sent[i] # NoErr}
        IN /\ lastOp' \in WaitMethods
           /\ wErr' # NoErr => ret'.err = wErr'
           /\ (wErr' = NoErr /\ StatusCode' # 0) =>
                  (ret'.err = ErrExit /\ ret'.StatusCode = StatusCode')
           /\ (wErr' = NoErr /\ StatusCode' = 0 /\ nonNil # {}) =>
                  \E i \in nonNil : /\ \A j \in nonNil : i <= j
                                     /\ ret'.err = sent[i]
           /\ (wErr' = NoErr /\ StatusCode' = 0 /\ nonNil = {}) => ret'.err = NoErr
           /\ ret'.err = NoErr =>
                  (wErr' = NoErr /\ StatusCode' = 0 /\ nonNil = {})]_vars

\* A Wait returned an ExitError with the unit's own status although a pump
\* had sent an error.
C3_Witness ==
    /\ lastOp = "Wait"
    /\ ret.err = ErrExit
    /\ ret.StatusCode \in OwnStatuses
    /\ copyError # NoErr

\* C4: when the context of a started Cmd is cancelled before the unit exits on
\* its own, so that the unit ends by the watcher's kill, a Wait that records
\* the kill's status returns the context's error, not an ExitError for it.
C4_CancelReturnsCtxError ==
    (hasCtx /\ waitReturned /\ lastOp \in WaitMethods /\ StatusCode \in KillStatus)
        => ret.err = ErrCtx

\* What C5 says of a Start that finds the context done: the context's error,
\* no backend call, every registered closer closed, nothing launched and
\* ContainerID left empty.
C5_DoneContextEffect ==
    /\ pc' = "idle"
    /\ ret'.err = ErrCtx
    /\ calls' = calls
    /\ (Range(closeAfterStdin) \cup Range(closeAfterOutput) \cup Range(closeAfterWait))
          \subseteq closedEnds'
    /\ \A i \in 1..Len(pump') : pump'[i] # "copying"
    /\ watcher' = watcher
    /\ watcher' # "waiting"
    /\ ContainerID' = 0

\* C5 as stated: every Start called (by the caller or by Run) while the
\* supplied context is done has that effect.
C5_StartDoneContext_Original ==
    [][((Start \/ Run) /\ hasCtx /\ ctxDone) => C5_DoneContextEffect]_vars

\* C5, amended: a Start called while the supplied context is done, on a Cmd
\* that is not started and has not both Tty and an error sink, has that effect.
C5_StartDoneContext ==
    [][((Start \/ Run) /\ hasCtx /\ ctxDone /\ ContainerID = 0
            /\ ~(Tty /\ Stderr # "nil"))
        => C5_DoneContextEffect]_vars

\* A Start found the context done after closers had been registered.
C5_Witness ==
    /\ lastOp \in {"Start", "Run"}
    /\ ret.err = ErrCtx
    /\ ctxDone
    /\ calls.create = 0
    /\ closeAfterWait # <<>>
    /\ Range(closeAfterWait) \subseteq closedEnds

\* C6: with Tty set and no stream bound by the caller, Output and
\* CombinedOutput do not return the Tty-and-Stderr misuse error.
C6_TtyOutputRuns ==
    (/\ Tty
     /\ Stdin = "nil"
     /\ lastOp \in {"Output", "CombinedOutput"}
     /\ Stdout = "buffer"
     /\ Stderr \in {"saver", "buffer"})
        => ret.err # ErrTtyStderr

\* C7: a Start on a Cmd on which Start has succeeded returns "already
\* started", makes no backend call, launches nothing and leaves ContainerID,
\* the registered pumps, the closer groups and the exit channels as they were.
C7_StartTwice ==
    [][(Start /\ ContainerID # 0) =>
        /\ pc' = "idle"
        /\ lastOp' = "Start"
        /\ ret'.err = ErrAlreadyStarted
        /\ calls' = calls
        /\ UNCHANGED <<ContainerID, goroutine, pump, watcher, closeAfterStdin,
                       closeAfterOutput, closeAfterWait, closedEnds, errch, waitReg,
                       waitCh, waitErrCh, waitDone, units>>]_vars

\* Start was rejected on a started Cmd whose Wait had already returned.
C7_Witness ==
    /\ lastOp = "Start"
    /\ ret.err = ErrAlreadyStarted
    /\ ContainerID # 0
    /\ waitReturned

\* C8: a Wait on a Cmd on which no Start has succeeded returns "not started"
\* at once: it receives from no channel, closes nothing, does not mark the Cmd
\* as waited and leaves StatusCode, and all else of the Cmd, as it was.
C8_WaitBeforeStart ==
    [][(Wait /\ ContainerID = 0) =>
        /\ pc' = "idle"
        /\ lastOp' = "Wait"
        /\ ret'.err = ErrNotStarted
        /\ UNCHANGED <<cmdVars, taskVars, envVars, backendVars>>]_vars

\* Wait was rejected on an unstarted Cmd that has closers registered, none of
\* them closed.
C8_Witness ==
    /\ lastOp = "Wait"
    /\ ret.err = ErrNotStarted
    /\ ContainerID = 0
    /\ closeAfterWait # <<>>
    /\ closedEnds = {}

\* What C9 says of the excerpt, once Output has returned: the returned value
\* carries one iff the capture buffer was bound by Output and the outcome is an
\* ExitError of non-zero status.
C9_Excerpt ==
    lastOp = "Output" =>
        (ret.Stderr <=> (Stderr = "saver" /\ ret.err = ErrExit /\ ret.StatusCode # 0))

\* C9 as stated: every Output call binds the capture buffer as the error sink
\* iff the caller had bound none and leaves a caller's binding as it was, and
\* the excerpt is attached as C9_Excerpt says.
C9_OutputCapture_Original ==
    [][/\ Output => /\ (Stderr' = "saver" <=> Stderr = "nil")
                    /\ (Stderr # "nil" => Stderr' = Stderr)
       /\ call = "Output" => Stderr' = Stderr
       /\ C9_Excerpt']_vars

\* C9, amended: an Output call that is not rejected for an already bound
\* Stdout binds the capture buffer as the error sink iff the caller had bound
\* none; every Output call leaves a caller's binding as it was, and the excerpt
\* is attached as C9_Excerpt says.
C9_OutputCapture ==
    [][/\ (Output /\ Stdout = "nil") => (Stderr' = "saver" <=> Stderr = "nil")
       /\ Output => (Stderr # "nil" => Stderr' = Stderr)
       /\ call = "Output" => Stderr' = Stderr
       /\ C9_Excerpt']_vars

\* Output returned an ExitError that carries the excerpt.
C9_Witness ==
    /\ lastOp = "Output"
    /\ ret.err = ErrExit
    /\ ret.Stderr

\* C10: with the input stream obtained from StdinPipe, once the unit has exited
\* and Wait has received its exit notification, Wait goes on to return without
\* the caller writing to or closing the writer: as long as Wait is in its drain
\* loop, a step of Wait, of a pump, of the watcher, of the context or of the
\* backend is possible.
C10_WaitNeedsNoCallerClose ==
    (/\ pc = "wait_drain"
     /\ Stdin = "pipe"
     /\ units[ContainerID] = "exited"
     /\ wErr \in {NoErr, ErrUnit})
        => ENABLED (\/ WaitDrain \/ PumpStdinFinish \/ PumpOutputFinish
                    \/ Cancel \/ WatcherKill \/ WatcherStop
                    \/ UnitExit \/ UnitKilled \/ WaitRegError)

\* C11: a kill is requested only when the context is done before the unit has
\* ended on its own: never for a Cmd without a context, never once the unit
\* has exited, and never once Wait has closed waitDone.
C11_KillOnlyWhileRunning ==
    [][calls'.kill > calls.kill =>
        /\ hasCtx
        /\ ctxDone
        /\ units[ContainerID] = "running"
        /\ waitDone # "closed"]_vars

\* C12: when a Wait on the started Cmd has returned, the connection Start
\* attached to the unit is closed and so is every closer of the three groups;
\* and no unit that a failed Start removed has its attached connection open.
C12_WaitReleasesAll ==
    /\ waitReturned =>
          /\ ContainerID \notin openConns
          /\ (Range(closeAfterStdin) \cup Range(closeAfterOutput)
                  \cup Range(closeAfterWait)) \subseteq closedEnds
    /\ \A u \in 1..Len(units) : units[u] = "removed" => u \notin openConns

\* C13: after any writes, T bytes in all, to a saver of capacity N, Bytes() is
\* the first min(T, N) bytes written, then, when bytes were left out, the marker
\* naming their number K = T - (bytes kept), then the last min(max(T - N, 0), N)
\* bytes written, each part in the order written; and it is no longer than 2N
\* plus the marker.
C13_BytesIsPrefixMarkerSuffix ==
    LET T == Len(written)
        nPre == minInt(T, N)
        nSuf == minInt(IF T - N > 0 THEN T - N ELSE 0, N)
        K == T - nPre - nSuf
    IN /\ Bytes = SubSeq(written, 1, nPre)
                    \o (IF K > 0 THEN Marker(K) ELSE <<>>)
                    \o SubSeq(written, T - nSuf + 1, T)
       /\ Len(Bytes) <= 2 * N + Len(Marker(K))

\* Bytes were left out and the ring buffer's oldest byte is not at its start.
C13_Witness ==
    /\ N > 1
    /\ Len(written) > 2 * N
    /\ skipped > 0
    /\ suffixOff > 0

\* C14: every Write returns the length of its argument and no error, and after
\* it len(prefix) <= N, len(suffix) <= N, the suffix is non-empty only if the
\* prefix is full, 0 <= suffixOff < N if the suffix is full, and skipped is the
\* number of bytes written minus len(prefix) and len(suffix).
C14_SaverInvariants ==
    [][/\ saverVars' # saverVars =>
            /\ writeRet'.n = Len(written') - Len(written)
            /\ writeRet'.err = NoErr
       /\ Len(prefix') <= N'
       /\ Len(suffix') <= N'
       /\ Len(suffix') > 0 => Len(prefix') = N'
       /\ Len(suffix') = N' => (0 <= suffixOff' /\ suffixOff' < N')
       /\ skipped' = Len(written') - Len(prefix') - Len(suffix')]_vars

\* One Write filled the rest of the prefix, left bytes out and went round the
\* ring buffer.
C14_Witness ==
    /\ Len(suffix) = N
    /\ suffixOff > 0
    /\ writeRet.n > N
    /\ skipped > writeRet.n - N

\* C15: over any number of Close calls on the writer, PipeWriter.Close is
\* called exactly once, by the first of them, and every later Close returns
\* what the first returned.
C15_CloseIdempotent ==
    [][nCloses' > nCloses =>
        /\ pwCloses' = 1
        /\ nCloses > 0 => closeRet' = closeRet]_vars

\* Close was called more than once and the one PipeWriter.Close had failed.
C15_Witness ==
    /\ nCloses > 1
    /\ pwCloses = 1
    /\ closeRet = ErrClosedPipe

\* C16: over any calls on one Cmd, a Start after a failed Start included, the
\* backend's create is called at most once, at most one stdin pump and one
\* output pump are registered, and each is bound to the connection attached to
\* the unit whose ID is recorded.
C16_SingleUse ==
    /\ calls.create <= 1
    /\ Cardinality({i \in Pumps : goroutine[i].kind = "stdin"}) <= 1
    /\ Cardinality({i \in Pumps : goroutine[i].kind = "output"}) <= 1
    /\ ContainerID # 0 => \A i \in Pumps : goroutine[i].conn = ContainerID

\* C17: a Start that fails at the create, attach or start step returns the
\* backend's error, has closed every closer of the three groups, launches no
\* pump and no watcher and leaves ContainerID empty; and a Start requests the
\* removal of the unit exactly when it fails at the attach or the start step.
C17_StartFailure ==
    [][((Start \/ Run \/ Output \/ CombinedOutput) /\ ContainerID = 0) =>
        LET createFailed == /\ calls'.create > calls.create
                            /\ calls'.attach = calls.attach
            attachFailed == /\ calls'.attach > calls.attach
                            /\ calls'.start = calls.start
            startFailed == /\ calls'.start > calls.start
                           /\ ContainerID' = 0
        IN /\ createFailed => ret'.err = ErrCreate
           /\ attachFailed => ret'.err = ErrAttach
           /\ startFailed => ret'.err = ErrStart
           /\ (createFailed \/ attachFailed \/ startFailed) =>
                  /\ pc' = "idle"
                  /\ (Range(closeAfterStdin) \cup Range(closeAfterOutput)
                          \cup Range(closeAfterWait)) \subseteq closedEnds'
                  /\ \A i \in 1..Len(pump') : pump'[i] # "copying"
                  /\ watcher' = watcher
                  /\ ContainerID' = 0
           /\ calls'.remove - calls.remove
                  = (IF attachFailed \/ startFailed THEN 1 ELSE 0)]_vars

\* A Start failed at the start step: its pumps are registered but not
\* launched, the unit was removed and the registered closers are closed.
C17_Witness ==
    /\ lastOp = "Start"
    /\ ret.err = ErrStart
    /\ calls.remove = 1
    /\ Len(pump) > 0
    /\ closeAfterWait # <<>>
    /\ Range(closeAfterWait) \subseteq closedEnds

\* C18: when Start, called by the caller or by Run, has returned an error on
\* a Cmd that is not started, every pipe end that StdinPipe, StdoutPipe and
\* StderrPipe registered is closed.
C18_StartErrorClosesPipes ==
    (lastOp \in {"Start", "Run"} /\ ret.err # NoErr /\ ContainerID = 0) =>
        (Range(closeAfterStdin) \cup Range(closeAfterOutput)
            \cup Range(closeAfterWait)) \subseteq closedEnds

\* C19: StatusCode changes only when Wait receives an exit notification that
\* carries no unit-level error message; with a notification that carries one,
\* or with a value from the registration-error channel, it keeps its value.
C19_StatusCodeFrame ==
    [][StatusCode' # StatusCode =>
        /\ pc = "wait_select"
        /\ waitCh # <<>>
        /\ ~Head(waitCh).Error]_vars

\* C20: a unit is created with OpenStdin set in its configuration whenever an
\* input source is bound when Start is called, and Start does not set the flag
\* when none is bound.
C20_OpenStdinAtCreate ==
    /\ Stdin # "nil" => \A u \in 1..Len(unitOpenStdin) : unitOpenStdin[u]
    /\ Stdin = "nil" => ~OpenStdin

\* C21: no pump is launched before a Start has succeeded; once one has, every
\* registered pump is launched and the capacity of c.errch is their number;
\* each pump that has ended has sent one value, so that the channel is never
\* full while a pump is still copying; and a Wait that has returned has
\* received one value per pump, every pump having ended and nothing being left
\* in the channel.
C21_PumpFanIn ==
    LET ended == Cardinality({i \in 1..Len(pump) : pump[i] = "done"})
        received == IF waitReturned THEN Len(goroutine) ELSE 0
    IN /\ Len(pump) = Len(goroutine)
       /\ ContainerID = 0 => \A i \in Pumps : pump[i] = "registered"
       /\ ContainerID # 0 =>
              /\ units[ContainerID] # "removed"
              /\ errchCap = Len(goroutine)
              /\ \A i \in Pumps : pump[i] \in {"copying", "done"}
       /\ ended = Len(errch) + received
       /\ Len(errch) <= errchCap
       /\ (\E i \in Pumps : pump[i] = "copying") => Len(errch) < errchCap
       /\ waitReturned => errch = <<>> /\ \A i \in Pumps : pump[i] = "done"

\* A Wait called by the caller has returned on a Cmd with two pumps, one of
\* which had sent an error.
C21_Witness ==
    /\ waitReturned
    /\ lastOp = "Wait"
    /\ Len(goroutine) = 2
    /\ copyError # NoErr

\* C22: on a started Cmd the read half of the input pipe is closed only once
\* the stdin pump bound to the started unit has ended, the write halves of
\* the output pipes only once its output pump has ended, and the read halves
\* of the output pipes only once Wait has returned; and when Wait has
\* returned the closers of all three groups are closed.
C22_ReleaseAfterTrigger ==
    LET ended(kind) == \E i \in Pumps : /\ goroutine[i].kind = kind
                                        /\ goroutine[i].conn = ContainerID
                                        /\ pump[i] = "done"
    IN ContainerID # 0 =>
          /\ "stdin_pr" \in closedEnds => ended("stdin")
          /\ closedEnds \cap {"stdout_pw", "stderr_pw"} # {} => ended("output")
          /\ closedEnds \cap {"stdout_pr", "stderr_pr"} # {} => waitReturned
          /\ waitReturned =>
                (Range(closeAfterStdin) \cup Range(closeAfterOutput)
                    \cup Range(closeAfterWait)) \subseteq closedEnds

\* What a Read on the read half pr of an io.Pipe whose write half is pw
\* yields when the pipe holds no data.
C23_Read(pr, pw) ==
    IF pr \in closedEnds THEN ErrClosedPipe
    ELSE IF pw \in closedEnds THEN "EOF"
    ELSE "blocks"

\* The readers StdoutPipe and StderrPipe returned, each with its write half.
C23_Readers ==
    (IF Stdout = "pipe" THEN {<<"stdout_pr", "stdout_pw">>} ELSE {})
        \cup (IF Stderr = "pipe" THEN {<<"stderr_pr", "stderr_pw">>} ELSE {})

\* The output pump bound to the started unit is in state st.
C23_OutputPump(st) ==
    \E i \in Pumps : /\ goroutine[i].kind = "output"
                      /\ goroutine[i].conn = ContainerID
                      /\ pump[i] = st

\* On a started Cmd with an output pipe: once the unit has exited, the output
\* pump's copy can end whatever the caller is doing, Wait called or not; and
\* once it has ended every write half is closed, so that a Read on a reader
\* that is still open yields end-of-stream.
C23_PumpClosesWriters ==
    (ContainerID # 0 /\ C23_Readers # {}) =>
        /\ (C23_OutputPump("copying") /\ units[ContainerID] = "exited")
               => ENABLED PumpOutputFinish
        /\ C23_OutputPump("done") =>
               \A rw \in C23_Readers :
                   /\ rw[2] \in closedEnds
                   /\ C23_Read(rw[1], rw[2]) \in {"EOF", ErrClosedPipe}
                   /\ rw[1] \notin closedEnds => C23_Read(rw[1], rw[2]) = "EOF"

\* A step that closes a read half of an output pipe is a Wait returning or a
\* Start failing, and never a pump's.
C23_ReadersClosedByWaitOrStart ==
    (closedEnds' \ closedEnds) \cap {"stdout_pr", "stderr_pr"} # {} =>
        /\ \/ pc \in {"wait_select", "wait_drain"} /\ pc' = "idle" /\ waitReturned'
           \/ /\ Start \/ Run \/ Output \/ CombinedOutput
              /\ ret'.err # NoErr
              /\ ContainerID' = 0
        /\ \A i \in 1..Len(pump) : pump'[i] = pump[i]

C24_WatcherEnds ==
    hasCtx =>
        /\ pc # "panic"
        /\ calls.kill <= 1
        /\ waitDone = "nil" <=> watcher = "none"
        /\ watcher = "done" => (ctxDone \/ waitDone = "closed")
        /\ (watcher = "waiting" /\ (ctxDone \/ waitDone = "closed"))
               => ENABLED (WatcherKill \/ WatcherStop)

\* waitDone is made by the Start that succeeds and closed by a Wait that has
\* received from c.waitCh or c.waitErrCh, and changes in no other step; a
\* kill is requested by the watcher, which ends with it.
C24_WaitDoneSteps ==
    /\ waitDone' # waitDone =>
          \/ /\ waitDone = "nil" /\ waitDone' = "open"
             /\ ContainerID = 0 /\ ContainerID' # 0
          \/ /\ waitDone = "open" /\ waitDone' = "closed"
             /\ pc = "wait_select"
             /\ WaitRecvResult \/ WaitRecvErr
    /\ calls'.kill > calls.kill => (watcher = "waiting" /\ watcher' = "done")

\* C24: for a Cmd with a context that was started, waitDone is closed at most
\* once whatever methods are called, and only by Wait once its select has
\* received; the watcher requests at most one kill and ends as soon as the
\* context is done or waitDone is closed.
C24_WaitDoneClosedOnce ==
    []C24_WatcherEnds /\ [][C24_WaitDoneSteps]_vars

\* The context was cancelled, the watcher requested its kill, a Wait closed
\* waitDone and returned, and the caller is inside a second Wait.
C24_Witness ==
    /\ hasCtx
    /\ waitDone = "closed"
    /\ watcher = "done"
    /\ calls.kill = 1
    /\ waitReturned
    /\ pc = "wait_select"

====
